---------------------------- MODULE Spec2Model ----------------------------
(***************************************************************************)
(* The numeric-range engine of package yang (src/unnamed/part_000):        *)
(* Number, YRange, YangRange; ParseNumber, ParseRanges, Validate,          *)
(* coalesce and Contains.                                                  *)
(*                                                                         *)
(* Machine words are Bits wide instead of 64, so that every value of the   *)
(* word can be enumerated: uint64 is 0..2^Bits-1 and int64 is              *)
(* -2^(Bits-1)..2^(Bits-1)-1, with the wrap-around of the hardware kept.   *)
(* Texts are sequences of one-character strings.                           *)
(***************************************************************************)
EXTENDS Integers, Sequences, FiniteSets, TLC

VARIABLES
    conv,    \* what this build's uint64(f) yields for a float64 f outside uint64
    op,      \* the operation that ran last
    text,    \* the call that made num or rng, with its input
    num,     \* a Number: the receiver of the Number methods
    arg,     \* a Number: the argument of Less and Equal
    out,     \* what the last operation returned
    rng,     \* a YangRange: the receiver of the YangRange methods
    cnd,     \* a YangRange: the argument of Contains
    prev,    \* the YangRange the last operation was applied to
    rc,      \* the channel of Contains: whether it is closed
    prod,    \* the producer goroutine of Contains: its position and cursor
    cons     \* the consuming loop of Contains: its position, cursor, rr and ok

vars == <<conv, op, text, num, arg, out, rng, cnd, prev, rc, prod, cons>>

\* Width of a machine word (64 in the program).
Bits == 3
\* Longest text, in characters, handed to ParseNumber.
MaxLen == 3
\* Most members (separated by "|") of a text handed to ParseRanges, and
\* most intervals of a set built from literals.
MaxMembers == 3

-----------------------------------------------------------------------------
(* Constants of the program, at the model's word width.                    *)

MaxUint64 == 2^Bits - 1
MaxInt64 == 2^(Bits - 1) - 1
MinInt64 == -(2^(Bits - 1))
AbsMinInt64 == 2^(Bits - 1)

Positive == "Positive"
Negative == "Negative"
MinNumber == "MinNumber"
MaxNumber == "MaxNumber"

\* A float64 is modelled exactly, as the integer Scale * value: every text
\* of the model has fewer than MaxLen fractional digits.
Scale == 10^MaxLen

Number(k, v, d) == [Kind |-> k, Value |-> v, Decimal |-> d]

\* The zero value of Number (Kind Positive is iota 0).
zeroNumber == Number(Positive, 0, 0)
maxNumber == Number(MaxNumber, 0, 0)
minNumber == Number(MinNumber, 0, 0)

Uint64s == 0..MaxUint64
Int64s == MinInt64..MaxInt64

\* uint64(i) for a signed i: two's complement.
ToUint64(i) == i % (2^Bits)

\* FromInt with uint64(i) for uint64(-i).
FromIntNoNegate(i) ==
    IF i < 0 THEN Number(Negative, ToUint64(i), 0)
    ELSE Number(Positive, ToUint64(i), 0)

FromInt(i) ==
    IF i < 0 THEN Number(Negative, ToUint64(-i), 0)
    ELSE Number(Positive, ToUint64(i), 0)

FromUint(i) == Number(Positive, i, 0)

-----------------------------------------------------------------------------
(* Texts.                                                                  *)

DigitChars == <<"0", "1", "2", "3", "4", "5", "6", "7", "8", "9">>

\* The value of a character as a digit, 36 when it is none (strconv
\* tells digits and letters apart; the texts of the model hold no letter
\* that is a digit of a base it reaches).
DigitVal(c) ==
    IF \E i \in 1..10 : DigitChars[i] = c
    THEN (CHOOSE i \in 1..10 : DigitChars[i] = c) - 1
    ELSE 36

RECURSIVE TrimLeft(_)
TrimLeft(s) ==
    IF s # <<>> /\ Head(s) = " " THEN TrimLeft(Tail(s)) ELSE s

RECURSIVE TrimRight(_)
TrimRight(s) ==
    IF s # <<>> /\ s[Len(s)] = " " THEN TrimRight(SubSeq(s, 1, Len(s) - 1))
    ELSE s

TrimSpace(s) == TrimRight(TrimLeft(s))

\* Whether sep starts at position i of s.
SepAt(s, sep, i) ==
    /\ i + Len(sep) - 1 <= Len(s)
    /\ SubSeq(s, i, i + Len(sep) - 1) = sep

\* strings.Split(s, sep) for a non-empty sep: the pieces of s between the
\* occurrences of sep, found left to right and not overlapping.
RECURSIVE SplitFrom(_, _, _, _)
SplitFrom(s, sep, start, i) ==
    IF i > Len(s) THEN <<SubSeq(s, start, Len(s))>>
    ELSE IF SepAt(s, sep, i)
         THEN <<SubSeq(s, start, i - 1)>>
                  \o SplitFrom(s, sep, i + Len(sep), i + Len(sep))
         ELSE SplitFrom(s, sep, start, i + 1)

Split(s, sep) == SplitFrom(s, sep, 1, 1)

RECURSIVE Join(_, _)
Join(ss, sep) ==
    IF ss = <<>> THEN <<>>
    ELSE IF Len(ss) = 1 THEN ss[1]
    ELSE ss[1] \o sep \o Join(Tail(ss), sep)

\* strconv.FormatUint(v, 10).
RECURSIVE FormatUint(_)
FormatUint(v) ==
    IF v < 10 THEN <<DigitChars[v + 1]>>
    ELSE FormatUint(v \div 10) \o <<DigitChars[(v % 10) + 1]>>

\* The digit loop of strconv.ParseUint: n is the value so far.  A character
\* that is no digit of the base is a syntax error, a value past the word a
\* range error (with the largest value), whichever comes first.
RECURSIVE ParseDigits(_, _, _)
ParseDigits(s, base, n) ==
    IF s = <<>> THEN [v |-> n, err |-> "nil"]
    ELSE IF DigitVal(Head(s)) >= base THEN [v |-> 0, err |-> "syntax"]
    ELSE IF n * base + DigitVal(Head(s)) > MaxUint64
         THEN [v |-> MaxUint64, err |-> "range"]
    ELSE ParseDigits(Tail(s), base, n * base + DigitVal(Head(s)))

\* strconv.ParseUint(s, 0, 64): base 8 after a leading "0", else base 10.
\* (The base prefixes 0x, 0o, 0b and the digit separator "_" need a letter
\* or an underscore, which no text of the model holds.)
ParseUint(s) ==
    IF s = <<>> THEN [v |-> 0, err |-> "syntax"]
    ELSE IF Head(s) = "0" THEN ParseDigits(Tail(s), 8, 0)
    ELSE ParseDigits(s, 10, 0)

AllDigits(s) == \A i \in 1..Len(s) : DigitVal(s[i]) < 10

RECURSIVE DecimalValue(_, _)
DecimalValue(s, n) ==
    IF s = <<>> THEN n ELSE DecimalValue(Tail(s), 10 * n + DigitVal(Head(s)))

\* strconv.ParseFloat(s, 64) of a text with exactly one ".": an optional
\* sign, then digits around the point, at least one of them.  v is the
\* float, times Scale.
ParseFloat(s) ==
    LET signed == s # <<>> /\ Head(s) \in {"+", "-"}
        body == IF signed THEN Tail(s) ELSE s
        parts == Split(body, <<".">>)
        ip == parts[1]
        fp == parts[2]
        mag == DecimalValue(ip, 0) * Scale
                 + DecimalValue(fp, 0) * 10^(MaxLen - Len(fp))
    IN  IF /\ Len(parts) = 2
           /\ AllDigits(ip) /\ AllDigits(fp)
           /\ Len(ip) + Len(fp) > 0
        THEN [v |-> IF signed /\ Head(s) = "-" THEN -mag ELSE mag,
              err |-> "nil"]
        ELSE [v |-> 0, err |-> "syntax"]

\* uint64(dec) for a float64 dec: the integral part when uint64 holds it;
\* otherwise the Go specification leaves the value to the implementation,
\* and conv is what this build yields.
FloatToUint64(dec) ==
    LET t == IF dec >= 0 THEN dec \div Scale ELSE -((-dec) \div Scale)
    IN  IF t \in Uint64s THEN t ELSE conv

-----------------------------------------------------------------------------
(* Number.                                                                 *)

\* ParseNumber is written as a chain of operators, one per step of the
\* function, each handed what the step before it computed.

\* Lines 107-122: s is the text after the sign, parts its pieces between ".".
parseDigits(kind, str, parts) ==
    IF Len(parts) = 1
    THEN [n |-> Number(kind, ParseUint(str).v, 0), err |-> ParseUint(str).err]
    ELSE IF Len(parts) > 2
    THEN [n |-> Number(kind, 0, 0),
          err |-> "can't convert to decimal: too many .s"]
    ELSE [n |-> Number(kind, FloatToUint64(ParseFloat(str).v), ParseFloat(str).v),
          err |-> ParseFloat(str).err]

\* Lines 98-107: the sign.
parseSigned(kind, str) == parseDigits(kind, str, Split(str, <<".">>))

\* Lines 87-104: the names, the texts with no digits, then the sign.
parseTrimmed(str) ==
    IF str = <<"m", "a", "x">> THEN [n |-> maxNumber, err |-> "nil"]
    ELSE IF str = <<"m", "i", "n">> THEN [n |-> minNumber, err |-> "nil"]
    ELSE IF str = <<>>
         THEN [n |-> zeroNumber, err |-> "converting empty string to number"]
    ELSE IF str \in {<<"+">>, <<"-">>}
         THEN [n |-> zeroNumber, err |-> "sign with no value"]
    ELSE parseSigned(IF Head(str) = "-" THEN Negative ELSE Positive,
                     IF Head(str) \in {"+", "-"} THEN Tail(str) ELSE str)

ParseNumber(str) == parseTrimmed(TrimSpace(str))

NumberString(x) ==
    IF x.Kind = Negative THEN <<"-">> \o FormatUint(x.Value)
    ELSE IF x.Kind = MinNumber THEN <<"m", "i", "n">>
    ELSE IF x.Kind = MaxNumber THEN <<"m", "a", "x">>
    ELSE FormatUint(x.Value)

\* Int without the case of the magnitude 2^63 of MinInt64.
NumberIntNoAbsMin(x) ==
    IF x.Kind = MinNumber THEN [v |-> MinInt64, err |-> "nil"]
    ELSE IF x.Kind = MaxNumber THEN [v |-> MaxInt64, err |-> "nil"]
    ELSE IF x.Kind = Negative /\ x.Value < AbsMinInt64
         THEN [v |-> -x.Value, err |-> "nil"]
    ELSE IF x.Kind # Negative /\ x.Value <= MaxInt64
         THEN [v |-> x.Value, err |-> "nil"]
    ELSE [v |-> 0, err |-> "signed integer overflow"]

NumberInt(x) ==
    IF x.Kind = MinNumber THEN [v |-> MinInt64, err |-> "nil"]
    ELSE IF x.Kind = MaxNumber THEN [v |-> MaxInt64, err |-> "nil"]
    ELSE IF x.Kind = Negative /\ x.Value = AbsMinInt64
         THEN [v |-> MinInt64, err |-> "nil"]
    ELSE IF x.Kind = Negative /\ x.Value < AbsMinInt64
         THEN [v |-> -x.Value, err |-> "nil"]
    ELSE IF x.Kind # Negative /\ x.Value <= MaxInt64
         THEN [v |-> x.Value, err |-> "nil"]
    ELSE [v |-> 0, err |-> "signed integer overflow"]

\* add stopping at the largest magnitude instead of wrapping.
addSaturating(x, i) ==
    IF x.Kind = MinNumber THEN x
    ELSE IF x.Kind = MaxNumber THEN x
    ELSE IF x.Kind = Negative
         THEN IF x.Value <= i
              THEN [x EXCEPT !.Value = i - x.Value, !.Kind = Positive]
              ELSE [x EXCEPT !.Value = x.Value - i]
    ELSE [x EXCEPT !.Value = IF x.Value + i > MaxUint64 THEN MaxUint64
                             ELSE x.Value + i]

add(x, i) ==
    IF x.Kind = MinNumber THEN x
    ELSE IF x.Kind = MaxNumber THEN x
    ELSE IF x.Kind = Negative
         THEN IF x.Value <= i
              THEN [x EXCEPT !.Value = i - x.Value, !.Kind = Positive]
              ELSE [x EXCEPT !.Value = x.Value - i]
    ELSE [x EXCEPT !.Value = (x.Value + i) % (2^Bits)]

\* Less without the case n.Kind == MaxNumber.
NumberLessNoMaxCase(x, y) ==
    IF y.Kind = MinNumber THEN FALSE
    ELSE IF x.Kind = MinNumber THEN TRUE
    ELSE IF y.Kind = MaxNumber THEN TRUE
    ELSE IF x.Kind = Negative /\ y.Kind # Negative THEN TRUE
    ELSE IF x.Kind # Negative /\ y.Kind = Negative THEN FALSE
    ELSE IF x.Kind = Negative THEN x.Value > y.Value
    ELSE x.Value < y.Value

NumberLess(x, y) ==
    IF y.Kind = MinNumber THEN FALSE
    ELSE IF x.Kind = MinNumber THEN TRUE
    ELSE IF x.Kind = MaxNumber THEN FALSE
    ELSE IF y.Kind = MaxNumber THEN TRUE
    ELSE IF x.Kind = Negative /\ y.Kind # Negative THEN TRUE
    ELSE IF x.Kind # Negative /\ y.Kind = Negative THEN FALSE
    ELSE IF x.Kind = Negative THEN x.Value > y.Value
    ELSE x.Value < y.Value

NumberEqual(x, y) == x = y

-----------------------------------------------------------------------------
(* YRange and YangRange.                                                   *)

YRange(lo, hi) == [Min |-> lo, Max |-> hi]

Valid(x) == ~NumberLess(x.Max, x.Min)

\* YangRange.Less(i, j), with Swap the interface sort.Sort works through.
YangRangeLess(q, i, j) ==
    IF NumberLess(q[i].Min, q[j].Min) THEN TRUE
    ELSE IF NumberLess(q[j].Min, q[i].Min) THEN FALSE
    ELSE NumberLess(q[i].Max, q[j].Max)

Swap(q, i, j) == [q EXCEPT ![i] = q[j], ![j] = q[i]]

\* The inner loop of the insertion sort: element j sinks while it is Less
\* than the one before it.
RECURSIVE Sink(_, _)
Sink(q, j) ==
    IF j > 1 /\ YangRangeLess(q, j, j - 1) THEN Sink(Swap(q, j, j - 1), j - 1)
    ELSE q

RECURSIVE InsertionSort(_, _)
InsertionSort(q, i) ==
    IF i > Len(q) THEN q ELSE InsertionSort(Sink(q, i), i + 1)

\* sort.Sort leaving the slice as it found it.
SortNothing(q) == q

\* sort.Sort(q): it sorts a slice of at most 12 elements by insertion.
Sort(q) == InsertionSort(q, 2)

\* Validate sorts its receiver in place: r is the receiver after the call.
validateSorted(sq) ==
    IF Len(sq) = 0 THEN [r |-> sq, err |-> "nil"]
    ELSE IF ~Valid(sq[1]) THEN [r |-> sq, err |-> "invalid number"]
    ELSE IF \E i \in 2..Len(sq) : NumberLess(sq[i].Min, sq[1].Max)
         THEN [r |-> sq, err |-> "overlapping ranges"]
    ELSE [r |-> sq, err |-> "nil"]

Validate(q) == validateSorted(Sort(q))

\* The loop of coalesce without lines 282-284: cr[i].Max is never raised.
RECURSIVE coalesceLoopNoExtend(_, _, _, _)
coalesceLoopNoExtend(q, cr, i, j) ==
    IF j > Len(q) THEN SubSeq(cr, 1, i)
    ELSE IF NumberLess(add(cr[i].Max, 1), q[j].Min)
         THEN coalesceLoopNoExtend(q, [cr EXCEPT ![i + 1] = q[j]], i + 1, j + 1)
    ELSE coalesceLoopNoExtend(q, cr, i, j + 1)

\* The loop of coalesce over q[j..]: cr[1..i] is what is coalesced so far.
RECURSIVE coalesceLoop(_, _, _, _)
coalesceLoop(q, cr, i, j) ==
    IF j > Len(q) THEN SubSeq(cr, 1, i)
    ELSE IF NumberLess(add(cr[i].Max, 1), q[j].Min)
         THEN coalesceLoop(q, [cr EXCEPT ![i + 1] = q[j]], i + 1, j + 1)
    ELSE IF NumberLess(cr[i].Max, q[j].Max)
         THEN coalesceLoop(q, [cr EXCEPT ![i].Max = q[j].Max], i, j + 1)
    ELSE coalesceLoop(q, cr, i, j + 1)

\* make(YangRange, k): k zero values.
RECURSIVE make(_)
make(k) ==
    IF k = 0 THEN <<>> ELSE Append(make(k - 1), YRange(zeroNumber, zeroNumber))

\* coalesce returning cr[:i] for cr[:i+1].
dropLast(cr) == SubSeq(cr, 1, Len(cr) - 1)

coalesceOffByOne(q) ==
    IF Len(q) < 2 THEN q
    ELSE dropLast(coalesceLoop(q, [make(Len(q)) EXCEPT ![1] = q[1]], 1, 2))

coalesce(q) ==
    IF Len(q) < 2 THEN q
    ELSE coalesceLoop(q, [make(Len(q)) EXCEPT ![1] = q[1]], 1, 2)

\* The body of the loop of ParseRanges for one member: parts are the pieces
\* of the member between "..", lo and hi what ParseNumber made of the first
\* and of the second.
parseBounds(parts, lo, hi) ==
    IF lo.err # "nil" THEN [x |-> YRange(zeroNumber, zeroNumber), err |-> lo.err]
    ELSE IF Len(parts) > 2
         THEN [x |-> YRange(zeroNumber, zeroNumber), err |-> "two many ..'s"]
    ELSE IF hi.err # "nil"
         THEN [x |-> YRange(zeroNumber, zeroNumber), err |-> hi.err]
    ELSE IF NumberLess(hi.n, lo.n)
         THEN [x |-> YRange(zeroNumber, zeroNumber), err |-> "less than"]
    ELSE [x |-> YRange(lo.n, hi.n), err |-> "nil"]

\* With one part max is min; a third part is never parsed.
parseParts(parts) ==
    parseBounds(parts, ParseNumber(parts[1]),
                ParseNumber(parts[IF Len(parts) = 1 THEN 1 ELSE 2]))

ParseMember(member) == parseParts(Split(member, <<".", ".">>))

\* The loop of ParseRanges: the first member that fails ends it.
RECURSIVE ParseMembers(_, _, _)
appendMember(parts, i, acc, pm) ==
    IF pm.err # "nil" THEN [r |-> <<>>, err |-> pm.err]
    ELSE ParseMembers(parts, i + 1, Append(acc, pm.x))

ParseMembers(parts, i, acc) ==
    IF i > Len(parts) THEN [r |-> acc, err |-> "nil"]
    ELSE appendMember(parts, i, acc, ParseMember(parts[i]))

\* Lines 253-257: Validate, then coalesce.
coalesceValidated(validated) ==
    IF validated.err # "nil" THEN [r |-> <<>>, err |-> validated.err]
    ELSE [r |-> coalesce(validated.r), err |-> "nil"]

validateParsed(parsed) ==
    IF parsed.err # "nil" THEN [r |-> <<>>, err |-> parsed.err]
    ELSE coalesceValidated(Validate(parsed.r))

ParseRanges(str) == validateParsed(ParseMembers(Split(str, <<"|">>), 1, <<>>))

YRangeString(x) ==
    IF NumberEqual(x.Min, x.Max) THEN NumberString(x.Min)
    ELSE NumberString(x.Min) \o <<".", ".">> \o NumberString(x.Max)

YangRangeString(q) ==
    Join([i \in 1..Len(q) |-> YRangeString(q[i])], <<"|">>)

YangRangeEqual(p, q) ==
    /\ Len(p) = Len(q)
    /\ \A i \in 1..Len(p) : p[i] = q[i]

\* The loop of Contains over q[j..]: rr = p[i] is the interval last received
\* from the channel, which hands over p's intervals in p's order and then
\* reports that it is closed.
RECURSIVE ContainsLoop(_, _, _, _)
ContainsLoop(p, q, i, j) ==
    IF j > Len(q) THEN TRUE
    ELSE IF q[j].Min.Kind # MinNumber /\ NumberLess(p[i].Max, q[j].Min)
         THEN IF i + 1 > Len(p) THEN FALSE
              ELSE ContainsLoop(p, q, i + 1, j)
    ELSE IF q[j].Max.Kind = MaxNumber \/ q[j].Min.Kind = MinNumber
         THEN ContainsLoop(p, q, i, j + 1)
    ELSE IF NumberLess(q[j].Min, p[i].Min) \/ NumberLess(p[i].Max, q[j].Max)
         THEN FALSE
    ELSE ContainsLoop(p, q, i, j + 1)

\* Contains without the test len(r) == 0: the first receive then yields
\* the zero YRange, and the next one reports the closed channel.
ContainsNoEmptyBase(p, q) ==
    IF Len(q) = 0 THEN TRUE
    ELSE ContainsLoop(IF Len(p) = 0 THEN make(1) ELSE p, q, 1, 1)

Contains(p, q) ==
    IF Len(q) = 0 \/ Len(p) = 0 THEN TRUE
    ELSE ContainsLoop(p, q, 1, 1)

-----------------------------------------------------------------------------
(* The callers' inputs.                                                    *)

\* What uint64(f) may yield for an f outside uint64, by build.
ConvOutcomes == {0, AbsMinInt64, MaxUint64}

NumChars == {"-", ".", "0", "1", "7"}

\* Texts with a "+", with blanks around the number, and the two names.
ExtraNumTexts ==
    { <<"m", "i", "n">>, <<"m", "a", "x">>, <<"+">>, <<"+", "1">>,
      <<" ", "1", " ">>, <<" ", "m", "i", "n">>, <<"+", "1", ".", "7">>,
      <<"m", "i">> }

NumTexts == (UNION {[1..k -> NumChars] : k \in 0..MaxLen}) \cup ExtraNumTexts

\* The caller's arg before it has kept a Number.
NoNumber == [Kind |-> "none", Value |-> 0, Decimal |-> 0]

\* Before Contains is called there is no channel and no goroutine.
NoChannel == [made |-> FALSE, closed |-> FALSE]
NoGoroutine == [pc |-> "none", k |-> 0]
NotCalled ==
    [pc |-> "none", j |-> 0, got |-> 0, ok |-> FALSE,
     rr |-> YRange(zeroNumber, zeroNumber)]

NoInput == [f |-> "none"]
NoOutput == [f |-> "none"]

Init ==
    /\ conv \in ConvOutcomes
    /\ op = "init"
    /\ text = NoInput
    /\ num = zeroNumber
    /\ arg = NoNumber
    /\ out = NoOutput
    /\ rng = <<>>
    /\ cnd = <<>>
    /\ prev = <<>>
    /\ rc = NoChannel
    /\ prod = NoGoroutine
    /\ cons = NotCalled

-----------------------------------------------------------------------------
(* A caller of Number: it makes a Number, then either renders it and       *)
(* parses the text back, or converts it to int64, or adds to it, or keeps  *)
(* it as the argument, makes a second Number and compares the two.         *)

Constructors == {"FromInt", "FromUint", "ParseNumber"}
MayConstruct == op \in {"init", "Keep"}
Constructed == op \in Constructors /\ out.err = "nil"

DoFromInt ==
    /\ MayConstruct
    /\ \E i \in Int64s :
          /\ text' = [f |-> "FromInt", i |-> i]
          /\ num' = FromInt(i)
    /\ op' = "FromInt"
    /\ out' = [err |-> "nil"]
    /\ UNCHANGED <<rc, prod, cons, conv, arg, rng, cnd, prev>>

DoFromUint ==
    /\ MayConstruct
    /\ \E i \in Uint64s :
          /\ text' = [f |-> "FromUint", i |-> i]
          /\ num' = FromUint(i)
    /\ op' = "FromUint"
    /\ out' = [err |-> "nil"]
    /\ UNCHANGED <<rc, prod, cons, conv, arg, rng, cnd, prev>>

Parsed(str, res) ==
    /\ text' = [f |-> "ParseNumber", s |-> str]
    /\ num' = res.n
    /\ out' = [err |-> res.err]

DoParseNumber ==
    /\ MayConstruct
    /\ \E str \in NumTexts : Parsed(str, ParseNumber(str))
    /\ op' = "ParseNumber"
    /\ UNCHANGED <<rc, prod, cons, conv, arg, rng, cnd, prev>>

DoString ==
    /\ Constructed
    /\ op' = "String"
    /\ out' = [str |-> NumberString(num)]
    /\ UNCHANGED <<rc, prod, cons, conv, text, num, arg, rng, cnd, prev>>

\* ParseNumber of the text String returned.
ParsedBack(res) == out' = [str |-> out.str, n |-> res.n, err |-> res.err]

DoParseBack ==
    /\ op = "String"
    /\ op' = "ParseBack"
    /\ ParsedBack(ParseNumber(out.str))
    /\ UNCHANGED <<rc, prod, cons, conv, text, num, arg, rng, cnd, prev>>

DoInt ==
    /\ Constructed
    /\ op' = "Int"
    /\ out' = NumberInt(num)
    /\ UNCHANGED <<rc, prod, cons, conv, text, num, arg, rng, cnd, prev>>

\* num.add(d), of a Number just made.
DoAdd ==
    /\ Constructed
    /\ arg = NoNumber
    /\ op' = "add"
    /\ \E d \in Uint64s : out' = [delta |-> d, sum |-> add(num, d)]
    /\ UNCHANGED <<rc, prod, cons, conv, text, num, arg, rng, cnd, prev>>

DoKeep ==
    /\ Constructed
    /\ op' = "Keep"
    /\ arg' = num
    /\ num' = zeroNumber
    /\ text' = NoInput
    /\ out' = NoOutput
    /\ UNCHANGED <<rc, prod, cons, conv, rng, cnd, prev>>

DoCompare ==
    /\ Constructed
    /\ arg # NoNumber
    /\ op' = "Compare"
    /\ out' = [less |-> NumberLess(num, arg),
               equal |-> NumberEqual(num, arg),
               greater |-> NumberLess(arg, num),
               belowMin |-> NumberLess(num, minNumber),
               aboveMax |-> NumberLess(maxNumber, num)]
    /\ UNCHANGED <<rc, prod, cons, conv, text, num, arg, rng, cnd, prev>>

NextNumber ==
    \/ DoFromInt \/ DoFromUint \/ DoParseNumber
    \/ DoString \/ DoParseBack \/ DoInt \/ DoAdd \/ DoKeep \/ DoCompare

SpecNumber == Init /\ [][NextNumber]_vars

-----------------------------------------------------------------------------
(* A caller of ParseRanges: it parses a text, then either asks whether the *)
(* set parsed from "min..max" contains the result, or renders the result   *)
(* and parses the text back.                                               *)

BoundTexts ==
    { <<"m", "i", "n">>, <<"m", "a", "x">>, <<"1">>, FormatUint(MaxUint64) }

MemberTexts ==
    BoundTexts \cup {lo \o <<".", ".">> \o hi : lo \in BoundTexts, hi \in BoundTexts}

\* Texts outside the grammar, with a sign, a fraction, blanks or octal.
ExtraRangeTexts ==
    { <<>>, <<"|">>, <<"1", "|">>,
      <<"1", ".", ".", "3", ".", ".", "7">>,
      <<"1", ".", ".">>, <<".", ".", "1">>,
      <<"-", "1", ".", ".", "1">>, <<"-", "0", "|", "0">>,
      <<"-", "1", "|", "-", "0">>, <<"+", "1", ".", ".", "0", "3">>,
      <<"1", ".", "7", ".", ".", "3">>, <<"1", ".", "2", "|", "1", ".", "7">>,
      <<" ", "1", " ", ".", ".", " ", "3", " ", "|", " ", "5">>,
      <<"0", "|", "2", "|", "4">>, <<"7", "7", ".">>,
      <<"1", ".", ".", "3", "|", "5", ".", ".", "m", "a", "x", "|", "7">> }

RangeTexts ==
    {Join(ms, <<"|">>) : ms \in UNION {[1..k -> MemberTexts] : k \in 1..MaxMembers}}
        \cup ExtraRangeTexts

MinMaxText == <<"m", "i", "n", ".", ".", "m", "a", "x">>

\* prev keeps the members as the loop parsed them, in the order of the text.
ParsedRanges(str, members, res) ==
    /\ text' = [f |-> "ParseRanges", s |-> str]
    /\ rng' = res.r
    /\ out' = [err |-> res.err]
    /\ prev' = members.r

DoParseRanges ==
    /\ op = "init"
    /\ \E str \in RangeTexts :
          ParsedRanges(str, ParseMembers(Split(str, <<"|">>), 1, <<>>),
                       ParseRanges(str))
    /\ op' = "ParseRanges"
    /\ UNCHANGED <<rc, prod, cons, conv, num, arg, cnd>>

\* Decimal64Range.Contains(rng), with Decimal64Range parsed from "min..max".
DoContainsDefault ==
    /\ op = "ParseRanges"
    /\ out.err = "nil"
    /\ op' = "ContainsDefault"
    /\ out' = [contains |-> Contains(ParseRanges(MinMaxText).r, rng)]
    /\ UNCHANGED <<rc, prod, cons, conv, text, num, arg, rng, cnd, prev>>

\* rng.String(), for a set ParseRanges returned.
DoRangesString ==
    /\ op = "ParseRanges"
    /\ out.err = "nil"
    /\ op' = "RangesString"
    /\ out' = [str |-> YangRangeString(rng)]
    /\ UNCHANGED <<rc, prod, cons, conv, text, num, arg, rng, cnd, prev>>

\* ParseRanges of the text String returned.
ParsedRangesBack(res) == out' = [str |-> out.str, r |-> res.r, err |-> res.err]

DoParseRangesBack ==
    /\ op = "RangesString"
    /\ op' = "ParseRangesBack"
    /\ ParsedRangesBack(ParseRanges(out.str))
    /\ UNCHANGED <<rc, prod, cons, conv, text, num, arg, rng, cnd, prev>>

NextRanges ==
    \/ DoParseRanges \/ DoContainsDefault
    \/ DoRangesString \/ DoParseRangesBack

SpecRanges == Init /\ [][NextRanges]_vars

-----------------------------------------------------------------------------
(* A caller that builds a YangRange from literal intervals, validates it   *)
(* and coalesces it, twice.                                                *)

LitNumbers ==
    {minNumber, maxNumber, FromInt(-1), FromUint(0), FromUint(MaxUint64)}

LitRanges == {YRange(lo, hi) : lo \in LitNumbers, hi \in LitNumbers}

DoMakeSet ==
    /\ op = "init"
    /\ \E q \in UNION {[1..k -> LitRanges] : k \in 0..MaxMembers} :
          /\ rng' = q
          /\ prev' = q
    /\ op' = "MakeSet"
    /\ text' = [f |-> "literal"]
    /\ out' = NoOutput
    /\ UNCHANGED <<rc, prod, cons, conv, num, arg, cnd>>

Validated(res) ==
    /\ rng' = res.r
    /\ out' = [err |-> res.err]

DoValidate ==
    /\ op = "MakeSet"
    /\ op' = "Validate"
    /\ prev' = rng
    /\ Validated(Validate(rng))
    /\ UNCHANGED <<rc, prod, cons, conv, text, num, arg, cnd>>

DoCoalesce ==
    /\ op = "Validate"
    /\ out.err = "nil"
    /\ op' = "coalesce"
    /\ prev' = rng
    /\ rng' = coalesce(rng)
    /\ out' = [len |-> Len(rng)]
    /\ UNCHANGED <<rc, prod, cons, conv, text, num, arg, cnd>>

DoCoalesceAgain ==
    /\ op = "coalesce"
    /\ op' = "coalesce2"
    /\ prev' = rng
    /\ rng' = coalesce(rng)
    /\ UNCHANGED <<rc, prod, cons, conv, text, num, arg, cnd, out>>

NextSets == DoMakeSet \/ DoValidate \/ DoCoalesce \/ DoCoalesceAgain

SpecSets == Init /\ [][NextSets]_vars

-----------------------------------------------------------------------------
(* A caller of Contains, with two sets as ParseRanges leaves them (sorted  *)
(* and coalesced), or empty.                                               *)

\* The last one is what ParseNumber makes of "-0".
SetNumbers ==
    {minNumber, maxNumber, FromInt(-1), FromUint(0), FromUint(1),
     FromUint(MaxUint64), Number(Negative, 0, 0)}

ValidRanges ==
    {x \in {YRange(lo, hi) : lo \in SetNumbers, hi \in SetNumbers} : Valid(x)}

Normalised(q) == coalesceValidated(Validate(q)) = [r |-> q, err |-> "nil"]

NormalSets ==
    {q \in {x : x \in UNION {[1..k -> ValidRanges] : k \in 0..MaxMembers}} :
        Normalised(q)}

DoContains ==
    /\ op = "init"
    /\ \E p \in NormalSets :
        \E q \in NormalSets :
          /\ rng' = p
          /\ cnd' = q
          /\ out' = [contains |-> Contains(p, q)]
    /\ op' = "Contains"
    /\ text' = [f |-> "literal"]
    /\ UNCHANGED <<rc, prod, cons, conv, num, arg, prev>>

NextContains == DoContains

SpecContains == Init /\ [][NextContains]_vars

-----------------------------------------------------------------------------
(* Contains as it runs: the calling goroutine makes the channel rc, starts *)
(* the producer goroutine and consumes; rc is unbuffered, so a send and a  *)
(* receive complete together.                                              *)

WalkNumbers == {minNumber, maxNumber, FromUint(0), FromUint(1), FromUint(3)}

WalkRanges ==
    {x \in {YRange(lo, hi) : lo \in WalkNumbers, hi \in WalkNumbers} : Valid(x)}

\* Sets that are unsorted, overlapping or invalid: Contains takes any.
IrregularSets ==
    { <<YRange(FromUint(3), FromUint(3)), YRange(FromUint(0), FromUint(1))>>,
      <<YRange(FromUint(0), FromUint(3)), YRange(FromUint(1), FromUint(1))>>,
      <<YRange(FromUint(1), FromUint(0))>> }

WalkSets ==
    {q \in {x : x \in UNION {[1..k -> WalkRanges] : k \in 0..MaxMembers}} :
        Normalised(q)} \cup IrregularSets

\* The interval the consuming loop is at.
ss == cnd[cons.j]

\* return b, from any of the return statements of Contains.
Return(b) ==
    /\ cons' = [cons EXCEPT !.pc = "returned"]
    /\ out' = [contains |-> b]

\* Lines 365-376 and the start of line 382: the test for an empty set, then
\* make(chan YRange) and the go statement.
DoContainsCall ==
    /\ op = "init"
    /\ op' = "ContainsCall"
    /\ text' = [f |-> "literal"]
    /\ \E p \in WalkSets : \E q \in WalkSets :
          /\ rng' = p
          /\ cnd' = q
          /\ IF Len(q) = 0 \/ Len(p) = 0
             THEN /\ cons' = [NotCalled EXCEPT !.pc = "returned"]
                  /\ out' = [contains |-> TRUE]
                  /\ UNCHANGED <<rc, prod>>
             ELSE /\ rc' = [made |-> TRUE, closed |-> FALSE]
                  /\ prod' = [pc |-> "range", k |-> 1]
                  /\ cons' = [NotCalled EXCEPT !.pc = "recvFirst", !.j = 1]
                  /\ out' = NoOutput
    /\ UNCHANGED <<conv, num, arg, prev>>

\* Line 372: the producer's for statement; after the last interval it goes
\* on to close(rc).
ProducerRange ==
    /\ prod.pc = "range"
    /\ prod' = [prod EXCEPT !.pc = IF prod.k <= Len(rng) THEN "send" ELSE "close"]
    /\ UNCHANGED <<conv, op, text, num, arg, out, rng, cnd, prev, rc, cons>>

\* close(rc) without closing.
ProducerNoClose ==
    /\ prod.pc = "close"
    /\ prod' = [prod EXCEPT !.pc = "done"]
    /\ UNCHANGED <<conv, op, text, num, arg, out, rng, cnd, prev, rc, cons>>

\* Line 375: close(rc), and the goroutine ends.
ProducerClose ==
    /\ prod.pc = "close"
    /\ rc' = [rc EXCEPT !.closed = TRUE]
    /\ prod' = [prod EXCEPT !.pc = "done"]
    /\ UNCHANGED <<conv, op, text, num, arg, out, rng, cnd, prev, cons>>

\* rr, ok = <-rc completing with the value the producer is sending at line
\* 373, which lets the producer go on.
ReceiveValue(pc) ==
    /\ prod.pc = "send"
    /\ cons' = [cons EXCEPT !.rr = rng[prod.k], !.ok = TRUE,
                            !.got = cons.got + 1, !.pc = pc]
    /\ prod' = [prod EXCEPT !.pc = "range", !.k = prod.k + 1]

\* rr, ok = <-rc on the closed channel: the zero YRange and false.
ReceiveClosed(pc) ==
    /\ rc.closed
    /\ cons' = [cons EXCEPT !.rr = YRange(zeroNumber, zeroNumber),
                            !.ok = FALSE, !.pc = pc]
    /\ UNCHANGED prod

\* Line 382: rr, ok := <-rc; ok is not looked at.
ConsumerRecvFirst ==
    /\ cons.pc = "recvFirst"
    /\ ReceiveValue("range") \/ ReceiveClosed("range")
    /\ UNCHANGED <<conv, op, text, num, arg, out, rng, cnd, prev, rc>>

\* Line 383: the for statement over s; after the last interval, line 400.
ConsumerRange ==
    /\ cons.pc = "range"
    /\ IF cons.j > Len(cnd) THEN Return(TRUE)
       ELSE cons' = [cons EXCEPT !.pc = "seek"] /\ UNCHANGED out
    /\ UNCHANGED <<conv, op, text, num, arg, rng, cnd, prev, rc, prod>>

\* Lines 385-386: whether another interval of r is to be received.
ConsumerSeek ==
    /\ cons.pc = "seek"
    /\ cons' = [cons EXCEPT !.pc =
                  IF ss.Min.Kind # MinNumber /\ NumberLess(cons.rr.Max, ss.Min)
                  THEN "recv" ELSE "check"]
    /\ UNCHANGED <<conv, op, text, num, arg, out, rng, cnd, prev, rc, prod>>

\* Lines 387-390: rr, ok = <-rc, and return false if rc is closed.
ConsumerRecv ==
    /\ cons.pc = "recv"
    /\ \/ ReceiveValue("seek") /\ UNCHANGED out
       \/ ReceiveClosed("returned") /\ out' = [contains |-> FALSE]
    /\ UNCHANGED <<conv, op, text, num, arg, rng, cnd, prev, rc>>

\* Lines 396-398 without the continue of lines 393-395.
ConsumerCheckNoContinue ==
    /\ cons.pc = "check"
    /\ IF NumberLess(ss.Min, cons.rr.Min) \/ NumberLess(cons.rr.Max, ss.Max)
       THEN Return(FALSE)
       ELSE cons' = [cons EXCEPT !.pc = "range", !.j = cons.j + 1]
            /\ UNCHANGED out
    /\ UNCHANGED <<conv, op, text, num, arg, rng, cnd, prev, rc, prod>>

\* Lines 393-398: the continue for an interval with a min or max edge, else
\* the test of ss against rr.
ConsumerCheck ==
    /\ cons.pc = "check"
    /\ IF ss.Max.Kind = MaxNumber \/ ss.Min.Kind = MinNumber
       THEN cons' = [cons EXCEPT !.pc = "range", !.j = cons.j + 1]
            /\ UNCHANGED out
       ELSE IF NumberLess(ss.Min, cons.rr.Min) \/ NumberLess(cons.rr.Max, ss.Max)
       THEN Return(FALSE)
       ELSE cons' = [cons EXCEPT !.pc = "range", !.j = cons.j + 1]
            /\ UNCHANGED out
    /\ UNCHANGED <<conv, op, text, num, arg, rng, cnd, prev, rc, prod>>

NextWalk ==
    \/ DoContainsCall
    \/ ProducerRange \/ ProducerClose
    \/ ConsumerRecvFirst \/ ConsumerRange \/ ConsumerSeek
    \/ ConsumerRecv \/ ConsumerCheck

SpecWalk == Init /\ [][NextWalk]_vars

\* The scheduler runs every goroutine that can take a step.
SpecWalkFair ==
    /\ SpecWalk
    /\ WF_vars(ProducerRange) /\ WF_vars(ProducerClose)
    /\ WF_vars(ConsumerRecvFirst) /\ WF_vars(ConsumerRange)
    /\ WF_vars(ConsumerSeek) /\ WF_vars(ConsumerRecv)
    /\ WF_vars(ConsumerCheck)

-----------------------------------------------------------------------------
(* A caller with a chain of three sets, each as ParseRanges leaves it or   *)
(* empty: a type, a restriction of it, and a restriction of that one.      *)

ChainNumbers == {minNumber, maxNumber, FromUint(0), FromUint(3)}

ChainRanges ==
    {x \in {YRange(lo, hi) : lo \in ChainNumbers, hi \in ChainNumbers} : Valid(x)}

ChainSets ==
    {q \in {x : x \in UNION {[1..k -> ChainRanges] : k \in 0..MaxMembers}} :
        Normalised(q)}

\* a.Contains(b), b.Contains(c) and a.Contains(c): rng is a, cnd is b and
\* prev is c.
DoContainsChain ==
    /\ op = "init"
    /\ op' = "ContainsChain"
    /\ text' = [f |-> "literal"]
    /\ \E a \in ChainSets : \E b \in ChainSets : \E c \in ChainSets :
          /\ rng' = a
          /\ cnd' = b
          /\ prev' = c
          /\ out' = [ab |-> Contains(a, b), bc |-> Contains(b, c),
                     ac |-> Contains(a, c)]
    /\ UNCHANGED <<rc, prod, cons, conv, num, arg>>

NextChain == DoContainsChain

SpecChain == Init /\ [][NextChain]_vars

-----------------------------------------------------------------------------
(* What the intervals denote.                                              *)

\* The integer a Number denotes (its integral part); min and max lie beyond
\* every magnitude, with room for "plus one" below them.
NegInf == -(2^Bits) - 1
PosInf == 2^Bits + 1

Den(x) ==
    IF x.Kind = MinNumber THEN NegInf
    ELSE IF x.Kind = MaxNumber THEN PosInf
    ELSE IF x.Kind = Negative THEN -x.Value
    ELSE x.Value

Values == NegInf..PosInf
FiniteValues == (NegInf + 1)..(PosInf - 1)

Covers(x, v) == Den(x.Min) <= v /\ v <= Den(x.Max)
CoveredBy(q, v) == \E i \in 1..Len(q) : Covers(q[i], v)
SharesValue(x, y, vs) == \E v \in vs : Covers(x, v) /\ Covers(y, v)

\* Sorted by (low, high), no value in two intervals, and a gap of at least
\* one value between an interval and the next.
Canonical(q) ==
    /\ \A i \in 1..Len(q) : Valid(q[i])
    /\ \A i \in 1..(Len(q) - 1) : ~YangRangeLess(q, i + 1, i)
    /\ \A i \in 1..Len(q) : \A j \in 1..Len(q) :
          i # j => ~SharesValue(q[i], q[j], Values)
    /\ \A i \in 1..(Len(q) - 1) : Den(q[i].Max) + 1 < Den(q[i + 1].Min)

-----------------------------------------------------------------------------
(* The claims.                                                             *)

\* C1: for non-empty, sorted and coalesced r and s, r.Contains(s) is true
\* exactly when every value some interval of s covers is covered by some
\* interval of r (min and max being unbounded edges).
C1_ContainsIffCovered ==
    (/\ op = "Contains"
     /\ rng # <<>> /\ cnd # <<>>
     /\ Canonical(rng) /\ Canonical(cnd))
    => (out.contains <=>
            \A v \in Values : CoveredBy(cnd, v) => CoveredBy(rng, v))

\* C2: whenever ParseRanges succeeds, the set it returns is sorted by
\* (low, high), has no value in two intervals, and has no interval whose
\* high plus one reaches the next interval's low.
C2_ParsedIsCanonical ==
    (op = "ParseRanges" /\ out.err = "nil") => Canonical(rng)

\* C3: ParseRanges fails whenever two members of its input denote intervals
\* that share a value, wherever they stand in the input.
C3_OverlapRejected ==
    (/\ op = "ParseRanges"
     /\ \E i \in 1..Len(prev) : \E j \in 1..Len(prev) :
           i # j /\ SharesValue(prev[i], prev[j], FiniteValues))
    => out.err # "nil"

C5_MinMaxContainsParsed == op = "ContainsDefault" => out.contains

C5_Witness ==
    /\ op = "ContainsDefault"
    /\ Len(rng) >= 2
    /\ rng[1].Min.Kind # MinNumber
    /\ rng[2].Max.Kind # MaxNumber
    /\ out.contains

\* C6: of a.Less(b), a.Equal(b) and b.Less(a) exactly one holds, for any two
\* Numbers FromInt, FromUint or ParseNumber made; and neither a.Less(min)
\* nor max.Less(a).
C6_Trichotomy ==
    op = "Compare" =>
        /\ \/ (out.less /\ ~out.equal /\ ~out.greater)
           \/ (~out.less /\ out.equal /\ ~out.greater)
           \/ (~out.less /\ ~out.equal /\ out.greater)
        /\ ~out.belowMin
        /\ ~out.aboveMax

\* C7: when Validate succeeds on S, coalesce(coalesce(S)) is Equal to
\* coalesce(S).
C7_CoalesceIdempotent == op = "coalesce2" => YangRangeEqual(rng, prev)

\* A set of which coalesce merged some intervals and kept two or more.
C7_Witness ==
    op = "coalesce2" /\ Len(prev) < out.len /\ Len(prev) >= 2 /\ rng = prev

\* C8: ParseNumber(v.String()) succeeds and returns a Number Equal to v, for
\* every v that FromInt, FromUint or ParseNumber made.
C8_RoundTrip ==
    op = "ParseBack" => out.err = "nil" /\ NumberEqual(out.n, num)

C10_FromIntRoundTrip ==
    (op = "Int" /\ text.f = "FromInt") => out.err = "nil" /\ out.v = text.i

C10_Witness ==
    /\ op = "Int" /\ text.f = "FromInt"
    /\ text.i = MinInt64
    /\ out.err = "nil" /\ out.v = MinInt64

\* How many times the interval x stands in q.
Count(q, x) == Cardinality({i \in 1..Len(q) : q[i] = x})

SameIntervals(p, q) ==
    /\ Len(p) = Len(q)
    /\ \A i \in 1..Len(p) : Count(p, p[i]) = Count(q, p[i])

SortedByLowHigh(q) == \A i \in 1..(Len(q) - 1) : ~YangRangeLess(q, i + 1, i)

\* C11 as stated: when Validate returns an error for r, r holds the same
\* intervals in the same order as before the call.
C11_ValidateErrorKeepsOrder ==
    (op = "Validate" /\ out.err # "nil") => rng = prev

\* C11 as amended: Validate sorts r in place whether it fails or not; after
\* the call r holds the intervals it held before, each as often as before,
\* sorted by (low, high).
C11_ValidateOnlySorts ==
    op = "Validate" => SameIntervals(rng, prev) /\ SortedByLowHigh(rng)

\* A failed Validate that left r in another order.
C11_Witness ==
    /\ op = "Validate"
    /\ out.err = "overlapping ranges"
    /\ rng # prev
    /\ SameIntervals(rng, prev)

\* C12: under every interleaving of the producer goroutine and the consuming
\* loop, Contains returns what the sequential two-cursor walk over r and s
\* returns, and the consumer receives r's intervals one at a time in r's
\* order.
C12_WalkIsSequential ==
    op = "ContainsCall" =>
        /\ cons.pc = "returned" => out.contains = Contains(rng, cnd)
        /\ cons.ok => cons.rr = rng[cons.got]
        /\ prod.pc \in {"range", "send", "close", "done"} =>
              cons.got = prod.k - 1

\* A walk that received two intervals of r and returned while the producer
\* had not finished.
C12_Witness ==
    /\ op = "ContainsCall"
    /\ cons.pc = "returned"
    /\ cons.got = 2
    /\ prod.pc = "range"
    /\ out.contains = Contains(rng, cnd)

\* C19: every producer goroutine a call to Contains starts eventually
\* reaches close(rc) and ends, whatever Contains returns and however early.
C19_ProducerTerminates == (prod.pc # "none") ~> (prod.pc = "done")

Receiving == cons.pc \in {"recvFirst", "recv"}

\* C20: under fair scheduling every call to Contains returns a boolean, every
\* receive of the consuming loop completes, with a value or with the signal
\* that rc is closed, and the first receive yields a value when r is not
\* empty.
C20_ContainsTerminates ==
    /\ (op = "ContainsCall") ~> (cons.pc = "returned" /\ out \in [contains : BOOLEAN])
    /\ Receiving ~> ~Receiving
    /\ []((prod.pc # "none" /\ cons.pc # "recvFirst") => cons.got >= 1)

\* A call that received the signal that rc is closed, and returned false.
C20_Witness ==
    /\ op = "ContainsCall"
    /\ cons.pc = "returned"
    /\ rc.closed /\ ~cons.ok
    /\ cons.got = Len(rng)
    /\ out = [contains |-> FALSE]

\* C13: for every set r that ParseRanges returns, ParseRanges(r.String())
\* succeeds and returns a set Equal to r.
C13_SetRoundTrip ==
    op = "ParseRangesBack" => out.err = "nil" /\ YangRangeEqual(out.r, rng)

\* Every bound of q is Positive or Negative and has no fractional part.
FiniteIntegers(q) ==
    \A i \in 1..Len(q) :
        /\ q[i].Min.Kind \in {Positive, Negative} /\ q[i].Min.Decimal = 0
        /\ q[i].Max.Kind \in {Positive, Negative} /\ q[i].Max.Decimal = 0

\* C14: for non-empty, sorted and coalesced r and s whose bounds are all
\* finite integers, r.Contains(s) is true exactly when every integer that s
\* covers is covered by r.
C14_FiniteContains ==
    (/\ op = "Contains"
     /\ rng # <<>> /\ cnd # <<>>
     /\ Canonical(rng) /\ Canonical(cnd)
     /\ FiniteIntegers(rng) /\ FiniteIntegers(cnd))
    => (out.contains <=>
            \A v \in FiniteValues : CoveredBy(cnd, v) => CoveredBy(rng, v))

AllValid(q) == \A i \in 1..Len(q) : Valid(q[i])

\* C15: for every set r sorted by (low, high) whose intervals are all valid,
\* coalesce(r) covers exactly the values r covers.
C15_CoalesceKeepsCoverage ==
    (op = "coalesce" /\ SortedByLowHigh(prev) /\ AllValid(prev))
    => \A v \in Values : CoveredBy(rng, v) <=> CoveredBy(prev, v)

\* A sorted valid set of which coalesce merged two adjacent intervals and
\* raised the high bound.
C15_Witness ==
    /\ op = "coalesce"
    /\ SortedByLowHigh(prev) /\ AllValid(prev)
    /\ Len(prev) >= 2 /\ Len(rng) < Len(prev)
    /\ Den(prev[1].Max) + 1 = Den(prev[2].Min)
    /\ rng[1].Max = prev[2].Max
    /\ \A v \in Values : CoveredBy(rng, v) <=> CoveredBy(prev, v)

\* C16: Validate returns an error whenever some interval of the set, at any
\* position, has its low above its high.
C16_InvalidRejected ==
    (op = "Validate" /\ ~AllValid(prev)) => out.err # "nil"

\* C17: every Negative Number that FromInt, ParseNumber or add returns has
\* a magnitude of at most 2^63.
C17_NegativeMagnitude ==
    /\ (/\ op \in {"FromInt", "ParseNumber"}
        /\ out.err = "nil"
        /\ num.Kind = Negative) => num.Value <= AbsMinInt64
    /\ (op = "add" /\ out.sum.Kind = Negative) => out.sum.Value <= AbsMinInt64

\* C18 as stated: n.add(delta) is never Less than n; min and max come back
\* unchanged; a Negative n with magnitude <= delta becomes Positive with
\* magnitude delta - magnitude; a Positive n does not wrap around.
C18_AddSaturates ==
    op = "add" =>
        /\ ~NumberLess(out.sum, num)
        /\ num.Kind \in {MinNumber, MaxNumber} => out.sum = num
        /\ (num.Kind = Negative /\ num.Value <= out.delta) =>
              (out.sum.Kind = Positive /\ out.sum.Value = out.delta - num.Value)

\* C18 as amended: min and max come back unchanged; a Negative n with
\* magnitude <= delta becomes Positive with magnitude delta - magnitude, and
\* with a larger magnitude stays Negative with magnitude - delta; a Positive
\* n becomes Positive with (magnitude + delta) modulo 2^64; so n.add(delta)
\* is Less than n exactly when n is Positive and magnitude + delta exceeds
\* the largest magnitude.
C18_AddWraps ==
    op = "add" =>
        /\ num.Kind \in {MinNumber, MaxNumber} => out.sum = num
        /\ (num.Kind = Negative /\ num.Value <= out.delta) =>
              (out.sum.Kind = Positive /\ out.sum.Value = out.delta - num.Value)
        /\ (num.Kind = Negative /\ num.Value > out.delta) =>
              (out.sum.Kind = Negative /\ out.sum.Value = num.Value - out.delta)
        /\ num.Kind = Positive =>
              /\ out.sum.Kind = Positive
              /\ out.sum.Value = (num.Value + out.delta) % (2^Bits)
        /\ out.sum.Decimal = num.Decimal
        /\ NumberLess(out.sum, num) <=>
              (num.Kind = Positive /\ num.Value + out.delta > MaxUint64)

\* The largest magnitude plus one: zero.
C18_Witness ==
    /\ op = "add"
    /\ num = FromUint(MaxUint64)
    /\ out.delta = 1
    /\ out.sum = FromUint(0)
    /\ NumberLess(out.sum, num)

\* C22: for two Numbers a and b that are Positive or Negative and have no
\* fractional part, a Negative with magnitude 0 included, a.Less(b) is true
\* exactly when the integer a denotes is smaller than the integer b denotes.
C22_LessIsNumericOrder ==
    (/\ op = "Compare"
     /\ num.Kind \in {Positive, Negative} /\ num.Decimal = 0
     /\ arg.Kind \in {Positive, Negative} /\ arg.Decimal = 0)
    => (out.less <=> Den(num) < Den(arg))

\* C21: for all sorted and coalesced sets a, b and c, the empty set and sets
\* with min or max edges included, if a.Contains(b) and b.Contains(c) then
\* a.Contains(c).
C21_ContainsTransitive ==
    (/\ op = "ContainsChain"
     /\ Canonical(rng) /\ Canonical(cnd) /\ Canonical(prev)
     /\ out.ab /\ out.bc)
    => out.ac

\* C21 for three non-empty sets.
C21_NonEmptyTransitive ==
    (/\ op = "ContainsChain"
     /\ rng # <<>> /\ cnd # <<>> /\ prev # <<>>
     /\ Canonical(rng) /\ Canonical(cnd) /\ Canonical(prev)
     /\ out.ab /\ out.bc)
    => out.ac

=============================================================================
